---- MODULE Spec2Model ----
(***************************************************************************)
(* Model of Ponder.compile (ponder/ponder.py): the overwrite prompt, the   *)
(* call of compile_operations, the grouping of compiled commands by time,  *)
(* the schedule chain of main.mcfunction, and the file-system steps that   *)
(* build, archive and remove the data pack directory.                      *)
(*                                                                         *)
(* A string is modelled as a sequence of tokens (a token is a TLA+ string  *)
(* that is never split further: a name, a digit, a separator).  A path is  *)
(* a sequence of path components below output_dir, each component a        *)
(* string in that sense.                                                   *)
(***************************************************************************)
EXTENDS Integers, Sequences, FiniteSets, TLC

\* ------------------------------------------------------------------ bounds
MaxTime == 5          \* compiled commands carry a time in 0..MaxTime
MaxLen == 3           \* compile_operations yields at most MaxLen commands

Times == 0..MaxTime
\* the calls of compile that are run: (ponder_name, version)
Calls == {[name |-> "ponders", version |-> TRUE],
          [name |-> "demo", version |-> FALSE]}
Answers == {"y", "Y", "n", "N", ""}       \* what input() may return
PreTrees == {"none", "empty", "files", "pack"}

VARIABLES pc, fs, fs0, ponder_name, version, answer, commands, functions,
          result, error

vars == <<pc, fs, fs0, ponder_name, version, answer, commands, functions,
          result, error>>

\* ------------------------------------------------------------- strings
Digit(d) == <<"0", "1", "2", "3", "4", "5", "6", "7", "8", "9">>[d + 1]

RECURSIVE IntToStr(_)
\* str(n) of a non-negative int: its decimal digits, most significant first
IntToStr(n) == IF n < 10 THEN <<Digit(n)>>
               ELSE IntToStr(n \div 10) \o <<Digit(n % 10)>>

RECURSIVE JoinLines(_)
\* '\n'.join(lines)
JoinLines(lines) ==
    IF lines = <<>> THEN <<>>
    ELSE IF Len(lines) = 1 THEN lines[1]
    ELSE lines[1] \o <<"\n">> \o JoinLines(Tail(lines))

Lower(s) == IF s = "Y" THEN "y" ELSE IF s = "N" THEN "n" ELSE s

Header == <<"# Generated by creepe_ponder">>

\* --------------------------------------------------------- file system
Dir == [kind |-> "dir", text |-> <<>>]
File(text) == [kind |-> "file", text |-> text]

IsPrefix(d, p) == Len(d) <= Len(p) /\ SubSeq(p, 1, Len(d)) = d

Exists(tree, p) == p \in DOMAIN tree

\* Path.mkdir(parents=True) of a path that does not exist
MkdirParents(tree, p) ==
    LET new == {SubSeq(p, 1, k) : k \in 1..Len(p)} \ DOMAIN tree
    IN [q \in DOMAIN tree \cup new |-> IF q \in DOMAIN tree THEN tree[q] ELSE Dir]

\* Path.write_text(text): creates the file or replaces its content
WriteText(tree, p, text) ==
    [q \in DOMAIN tree \cup {p} |-> IF q = p THEN File(text) ELSE tree[q]]

\* shutil.rmtree(d)
RmTree(tree, d) ==
    [q \in {r \in DOMAIN tree : ~IsPrefix(d, r)} |-> tree[q]]

\* the entries shutil.make_archive(base, "zip", root_dir=d) stores: everything
\* below d, named relative to d
ArchiveOf(tree, d) ==
    LET below == {r \in DOMAIN tree : IsPrefix(d, r) /\ r # d}
        rel(r) == SubSeq(r, Len(d) + 1, Len(r))
    IN [e \in {rel(r) : r \in below} |->
            tree[CHOOSE r \in below : rel(r) = e]]

NoZip == [exists |-> FALSE, entries |-> <<>>]
OldZip == [exists |-> TRUE, entries |-> (<< <<"old.txt">> >> :> File(<<"old">>))]
PartialZip == [exists |-> TRUE, entries |-> <<>>]

\* ------------------------------------------------------------- paths
DatapackDir(name) == << <<name>> >>
MetaFile(name) == DatapackDir(name) \o << <<"pack.mcmeta">> >>
FunctionDir(name, ver) ==
    DatapackDir(name) \o
        << <<"data">>, <<name>>, <<IF ver THEN "function" ELSE "functions">> >>
BucketFileName(t) == <<"_">> \o IntToStr(t) \o <<".mcfunction">>
FunctionFile(name, ver, t) == FunctionDir(name, ver) \o <<BucketFileName(t)>>
MainFile(name, ver) == FunctionDir(name, ver) \o << <<"main", ".mcfunction">> >>
ZipPath(name) == <<".", "/", name, ".zip">>

MetaText == <<"{\"pack\": {\"pack_format\": 16, \"supported_formats\": [16, 39], \"description\": ...}}">>

\* what output_dir may hold under the pack's name before compile is called
InitialTree(pre, name, ver) ==
    LET d == DatapackDir(name)
        t0 == << >>
        t1 == MkdirParents(t0, d)
        t2 == WriteText(WriteText(t1, MetaFile(name), <<"user meta">>),
                        d \o << <<"notes.txt">> >>, <<"user notes">>)
        t3 == WriteText(MkdirParents(t2, FunctionDir(name, ver)),
                        MainFile(name, ver), <<"user main">>)
    IN CASE pre = "none" -> t0
         [] pre = "empty" -> t1
         [] pre = "files" -> t2
         [] pre = "pack" -> t3

\* ------------------------------------------------------ compiled commands
\* The text of a compiled command is opaque to compile; the i-th command
\* carries the text cmd<i>, so every emitted text is distinguishable.
CmdText(i) == <<"cmd">> \o IntToStr(i)

CommandSeqs ==
    UNION {{[i \in 1..n |-> [time |-> ts[i], text |-> CmdText(i)]] :
                ts \in [1..n -> Times]} : n \in 0..MaxLen}

\* functions = {}
EmptyFunctions == [keys |-> <<>>, val |-> <<>>]

Init ==
    /\ pc = "check_zip"
    /\ \E c \in Calls : ponder_name = c.name /\ version = c.version
    /\ \E pre \in PreTrees, z \in {NoZip, OldZip} :
          fs = [zip |-> z, tree |-> InitialTree(pre, ponder_name, version)]
    /\ fs0 = fs
    /\ answer = "none"
    /\ commands = <<>>
    /\ functions = EmptyFunctions
    /\ result = <<"unset">>
    /\ error = "none"

\* ------------------------------------------------------------ grouping
\* a repeated time overwrites its bucket instead of appending to it
GroupStep_Overwrite(fns, cmd) ==
    [keys |-> IF cmd.time \in DOMAIN fns.val THEN fns.keys
              ELSE Append(fns.keys, cmd.time),
     val |-> [t \in DOMAIN fns.val \cup {cmd.time} |->
                 IF t = cmd.time THEN <<Header, cmd.text>> ELSE fns.val[t]]]

\* one iteration of the loop `for command in commands` (the dict keeps its
\* keys in insertion order)
GroupStep(fns, cmd) ==
    IF cmd.time \in DOMAIN fns.val
    THEN [fns EXCEPT !.val[cmd.time] = Append(@, cmd.text)]
    ELSE [keys |-> Append(fns.keys, cmd.time),
          val |-> [t \in DOMAIN fns.val \cup {cmd.time} |->
                      IF t = cmd.time THEN <<Header, cmd.text>> ELSE fns.val[t]]]

RECURSIVE GroupFrom(_, _)
GroupFrom(fns, cmds) ==
    IF cmds = <<>> THEN fns
    ELSE GroupFrom(GroupStep(fns, Head(cmds)), Tail(cmds))

GroupAll(cmds) == GroupFrom(EmptyFunctions, cmds)

\* ------------------------------------------------------- schedule chain
\* the offset of one tick left out
NativeTick_NoOffset(time) == time * 2

NativeTick(time) == time * 2 + 1

\* f"schedule function {ponder_name}:{time} {time * 2 + 1} append"
ScheduleDirective(name, time) ==
    <<"schedule function ", name, ":">> \o IntToStr(time) \o <<" ">>
        \o IntToStr(NativeTick(time)) \o <<" append">>

\* the directives emitted in reverse key order
MainCommandList_Reversed(fns, name) ==
    <<Header>> \o [i \in 1..Len(fns.keys) |->
                      ScheduleDirective(name, fns.keys[Len(fns.keys) + 1 - i])]

\* command_list of the main function: the header, then one directive per
\* key of functions, in the order of functions.keys()
MainCommandList(fns, name) ==
    <<Header>> \o [i \in 1..Len(fns.keys) |-> ScheduleDirective(name, fns.keys[i])]

RECURSIVE WriteBucketFiles(_, _, _, _, _)
\* the loop `for time, command_list in functions.items()`, from key i on
WriteBucketFiles(tree, fns, name, ver, i) ==
    IF i > Len(fns.keys) THEN tree
    ELSE WriteBucketFiles(
            WriteText(tree, FunctionFile(name, ver, fns.keys[i]),
                      JoinLines(fns.val[fns.keys[i]])),
            fns, name, ver, i + 1)

\* ------------------------------------------------------- control flow
\* compile_operations called only after the pack directory and pack.mcmeta
\* have been written
Order_CompileAfterMeta ==
    <<"check_zip", "mkdir", "meta", "compile_ops", "mkfuncdir", "group",
      "write_buckets", "main", "archive", "rmtree", "log">>

\* the statements of compile in program order; the prompt is nested in the
\* zip check
Order == <<"check_zip", "compile_ops", "mkdir", "meta", "mkfuncdir", "group",
           "write_buckets", "main", "archive", "rmtree", "log">>

Succ(p) ==
    LET i == CHOOSE k \in 1..Len(Order) : Order[k] = p
    IN IF i = Len(Order) THEN "returned" ELSE Order[i + 1]

\* only a literal n counts as declining
Declined_OnlyN(a) == a = "n"

\* input().lower() != "y"
Declined(a) == Lower(a) # "y"

\* if os.path.exists(f'{output_dir}/{ponder_name}.zip')
CheckZip ==
    /\ pc = "check_zip"
    /\ pc' = IF fs.zip.exists THEN "prompt" ELSE Succ("check_zip")
    /\ UNCHANGED <<fs, fs0, ponder_name, version, answer, commands, functions,
                   result, error>>

\* the blocking input(): a declining answer returns (None) at once
Prompt ==
    /\ pc = "prompt"
    /\ \E a \in Answers :
          /\ answer' = a
          /\ IF Declined(a)
             THEN pc' = "returned" /\ result' = <<"None">>
             ELSE pc' = Succ("check_zip") /\ result' = result
    /\ UNCHANGED <<fs, fs0, ponder_name, version, commands, functions, error>>

\* commands = compile_operations(self, pos_offset): a sequence of
\* (time, text) pairs, or a FormatError that leaves compile
CompileOperations ==
    /\ pc = "compile_ops"
    /\ \/ \E cs \in CommandSeqs :
             /\ commands' = cs
             /\ pc' = Succ("compile_ops")
             /\ error' = error
       \/ /\ pc' = "raised"
          /\ error' = "FormatError"
          /\ commands' = commands
    /\ UNCHANGED <<fs, fs0, ponder_name, version, answer, functions, result>>

\* if not datapack_dir.exists(): datapack_dir.mkdir(parents=True)
MkDatapackDir ==
    /\ pc = "mkdir"
    /\ fs' = IF Exists(fs.tree, DatapackDir(ponder_name)) THEN fs
             ELSE [fs EXCEPT !.tree = MkdirParents(@, DatapackDir(ponder_name))]
    /\ pc' = Succ("mkdir")
    /\ UNCHANGED <<fs0, ponder_name, version, answer, commands, functions,
                   result, error>>

\* meta_file.write_text(dumps(meta_data))
WriteMeta ==
    /\ pc = "meta"
    /\ fs' = [fs EXCEPT !.tree = WriteText(@, MetaFile(ponder_name), MetaText)]
    /\ pc' = Succ("meta")
    /\ UNCHANGED <<fs0, ponder_name, version, answer, commands, functions,
                   result, error>>

\* function_dir.mkdir(parents=True): FileExistsError when it exists
MkFunctionDir ==
    /\ pc = "mkfuncdir"
    /\ IF Exists(fs.tree, FunctionDir(ponder_name, version))
       THEN /\ pc' = "raised"
            /\ error' = "FileExistsError"
            /\ fs' = fs
       ELSE /\ fs' = [fs EXCEPT !.tree =
                         MkdirParents(@, FunctionDir(ponder_name, version))]
            /\ pc' = Succ("mkfuncdir")
            /\ error' = error
    /\ UNCHANGED <<fs0, ponder_name, version, answer, commands, functions, result>>

\* functions = {}; for command in commands: ...
Group ==
    /\ pc = "group"
    /\ functions' = GroupAll(commands)
    /\ pc' = Succ("group")
    /\ UNCHANGED <<fs, fs0, ponder_name, version, answer, commands, result, error>>

\* for time, command_list in functions.items(): function_file.write_text(...)
WriteBuckets ==
    /\ pc = "write_buckets"
    /\ fs' = [fs EXCEPT !.tree =
                 WriteBucketFiles(@, functions, ponder_name, version, 1)]
    /\ pc' = Succ("write_buckets")
    /\ UNCHANGED <<fs0, ponder_name, version, answer, commands, functions,
                   result, error>>

\* main_function_file.write_text('\n'.join(command_list))
WriteMain ==
    /\ pc = "main"
    /\ fs' = [fs EXCEPT !.tree =
                 WriteText(@, MainFile(ponder_name, version),
                           JoinLines(MainCommandList(functions, ponder_name)))]
    /\ pc' = Succ("main")
    /\ UNCHANGED <<fs0, ponder_name, version, answer, commands, functions,
                   result, error>>

\* a failure of make_archive is swallowed and compile goes on to rmtree
MakeArchive_SwallowFailure ==
    /\ pc = "archive"
    /\ \/ fs' = [fs EXCEPT !.zip =
                    [exists |-> TRUE,
                     entries |-> ArchiveOf(fs.tree, DatapackDir(ponder_name))]]
       \/ \E z \in {fs.zip, PartialZip} : fs' = [fs EXCEPT !.zip = z]
    /\ pc' = Succ("archive")
    /\ UNCHANGED <<fs0, ponder_name, version, answer, commands, functions,
                   result, error>>

\* shutil.make_archive(datapack_dir, "zip", datapack_dir): writes
\* {ponder_name}.zip, or raises and leaves the zip as it was or partial
MakeArchive ==
    /\ pc = "archive"
    /\ \/ /\ fs' = [fs EXCEPT !.zip =
                       [exists |-> TRUE,
                        entries |-> ArchiveOf(fs.tree, DatapackDir(ponder_name))]]
          /\ pc' = Succ("archive")
          /\ error' = error
       \/ /\ \E z \in {fs.zip, PartialZip} : fs' = [fs EXCEPT !.zip = z]
          /\ pc' = "raised"
          /\ error' = "OSError"
    /\ UNCHANGED <<fs0, ponder_name, version, answer, commands, functions, result>>

\* shutil.rmtree(datapack_dir)
Rmtree ==
    /\ pc = "rmtree"
    /\ fs' = [fs EXCEPT !.tree = RmTree(@, DatapackDir(ponder_name))]
    /\ pc' = Succ("rmtree")
    /\ UNCHANGED <<fs0, ponder_name, version, answer, commands, functions,
                   result, error>>

\* logger.info(... max(functions.keys()) / 20 ...): max() of an empty
\* sequence raises ValueError; otherwise the function ends, returning None
LogSummary ==
    /\ pc = "log"
    /\ IF functions.keys = <<>>
       THEN pc' = "raised" /\ error' = "ValueError" /\ result' = result
       ELSE pc' = Succ("log") /\ error' = error /\ result' = <<"None">>
    /\ UNCHANGED <<fs, fs0, ponder_name, version, answer, commands, functions>>

Next ==
    \/ CheckZip
    \/ Prompt
    \/ CompileOperations
    \/ MkDatapackDir
    \/ WriteMeta
    \/ MkFunctionDir
    \/ Group
    \/ WriteBuckets
    \/ WriteMain
    \/ MakeArchive
    \/ Rmtree
    \/ LogSummary

Spec == Init /\ [][Next]_vars

\* ------------------------------------------------- reading the state back
IndexOf(l) == CHOOSE k \in 1..Len(Order) : Order[k] = l

\* the operator answered the prompt with something other than y / Y
Refused == answer \notin {"none", "y", "Y"}

RaisedAt ==
    CASE error = "FormatError" -> "compile_ops"
      [] error = "FileExistsError" -> "mkfuncdir"
      [] error = "OSError" -> "archive"
      [] error = "ValueError" -> "log"

\* how many statements of Order have run to their end
Completed ==
    CASE pc = "prompt" -> 1
      [] pc = "raised" -> IndexOf(RaisedAt) - 1
      [] pc = "returned" -> IF Refused THEN 1 ELSE Len(Order)
      [] OTHER -> IndexOf(pc) - 1

Done(l) == Completed >= IndexOf(l)

\* the main function file is on disk as compile wrote it
MainWritten == Done("main") /\ ~Done("rmtree")

FirstIndex(s, tok) == CHOOSE i \in 1..Len(s) : s[i] = tok /\ \A j \in 1..(i - 1) : s[j] # tok

RECURSIVE SplitLines(_)
\* text.split('\n')
SplitLines(s) ==
    IF \A i \in 1..Len(s) : s[i] # "\n" THEN <<s>>
    ELSE LET i == FirstIndex(s, "\n")
         IN <<SubSeq(s, 1, i - 1)>> \o SplitLines(SubSeq(s, i + 1, Len(s)))

DigitVal(c) == CHOOSE d \in 0..9 : Digit(d) = c

RECURSIVE StrToInt(_)
\* int(s) of a non-empty string of decimal digits
StrToInt(s) ==
    IF Len(s) = 1 THEN DigitVal(s[1])
    ELSE 10 * StrToInt(SubSeq(s, 1, Len(s) - 1)) + DigitVal(s[Len(s)])

\* the fields of a line "schedule function <ns>:<fn> <delay> append"
DirectiveNamespace(d) == d[2]
DirectiveFunction(d) == SubSeq(d, 4, FirstIndex(d, " ") - 1)
DirectiveDelay(d) == StrToInt(SubSeq(d, FirstIndex(d, " ") + 1, Len(d) - 1))

MainLines == SplitLines(fs.tree[MainFile(ponder_name, version)].text)

\* the lines of main.mcfunction after the header
Directives == Tail(MainLines)

CommandTimes == {commands[i].time : i \in DOMAIN commands}

\* the texts of the commands that carry time t, in emission order
RECURSIVE TextsAt(_, _)
TextsAt(cmds, t) ==
    IF cmds = <<>> THEN <<>>
    ELSE (IF Head(cmds).time = t THEN <<Head(cmds).text>> ELSE <<>>)
            \o TextsAt(Tail(cmds), t)

\* the distinct times of cmds in the order of their first occurrence
RECURSIVE FirstSeen(_, _)
FirstSeen(cmds, seen) ==
    IF cmds = <<>> THEN <<>>
    ELSE IF Head(cmds).time \in seen THEN FirstSeen(Tail(cmds), seen)
    ELSE <<Head(cmds).time>> \o FirstSeen(Tail(cmds), seen \cup {Head(cmds).time})

\* ------------------------------------------------------------------ C1
\* C1: when the zip exists and the operator answers the prompt with anything
\* but y / Y, compile returns and the file system (tree and zip) is exactly
\* what it was when compile was called.
C1_DeclineLeavesFileSystem ==
    Refused => (pc = "returned" /\ fs = fs0 /\ result = <<"None">>)

C1_Witness ==
    /\ pc = "returned"
    /\ answer = ""
    /\ fs0.zip.exists
    /\ Exists(fs0.tree, MetaFile(ponder_name))

\* ------------------------------------------------------------------ C2
\* C2: compile returns the path of the archive when it runs to completion and
\* None only when the operator declined the prompt.
C2_ReturnsPathUnlessCancelled ==
    pc = "returned" =>
        IF Refused THEN result = <<"None">> ELSE result = ZipPath(ponder_name)

\* ------------------------------------------------------------------ C3
\* C3: the grouping step yields exactly one bucket per distinct time; each
\* bucket is the header line followed by exactly the texts whose pair carried
\* that time, in emission order.
C3_GroupingByTime ==
    Done("group") =>
        /\ DOMAIN functions.val = CommandTimes
        /\ Len(functions.keys) = Cardinality(CommandTimes)
        /\ {functions.keys[i] : i \in DOMAIN functions.keys} = CommandTimes
        /\ \A t \in CommandTimes :
              functions.val[t] = <<Header>> \o TextsAt(commands, t)

C3_Witness ==
    /\ Done("group")
    /\ Len(commands) = 3
    /\ commands[1].time = commands[3].time
    /\ commands[1].time > commands[2].time

\* ------------------------------------------------------------------ C4
\* C4: the directive written for bucket time t and pack name n reads
\* "schedule function n:t (2t+1) append": the delay is 2t+1, odd, at least 1
\* and strictly increasing in t; time 5 of pack ponders gives
\* "schedule function ponders:5 11 append".
C4_ScheduleDirective ==
    MainWritten =>
        LET ds == Directives
            delay == [i \in DOMAIN ds |-> DirectiveDelay(ds[i])]
        IN /\ Len(ds) = Len(functions.keys)
           /\ \A i \in DOMAIN ds :
                LET d == ds[i]
                    t == functions.keys[i]
                IN /\ d[1] = "schedule function "
                   /\ DirectiveNamespace(d) = ponder_name
                   /\ d[3] = ":"
                   /\ StrToInt(DirectiveFunction(d)) = t
                   /\ delay[i] = 2 * t + 1
                   /\ delay[i] % 2 = 1
                   /\ delay[i] >= 1
                   /\ d[Len(d)] = " append"
                   /\ \A j \in DOMAIN ds :
                         functions.keys[j] < t => delay[j] < delay[i]
                   /\ (t = 5 /\ ponder_name = "ponders") =>
                         d = <<"schedule function ", "ponders", ":", "5", " ",
                               "1", "1", " append">>

C4_Witness ==
    /\ MainWritten
    /\ ponder_name = "ponders"
    /\ functions.keys = <<5, 0>>
    /\ Len(Directives) = 2

\* ------------------------------------------------------------------ C5
\* C5: when compile_operations raises FormatError, compile has written
\* nothing: the tree and the zip are what they were when compile was called.
C5_FormatErrorBeforeAnyWrite ==
    error = "FormatError" => (pc = "raised" /\ fs = fs0)

C5_Witness ==
    /\ error = "FormatError"
    /\ pc = "raised"
    /\ answer = "Y"

\* ------------------------------------------------------------------ C6
\* C6: compile changes or deletes a file or directory that existed before
\* the call only after the operator confirmed at the prompt.
C6_DestructiveOnlyAfterConfirm ==
    (\/ \E p \in DOMAIN fs0.tree : ~Exists(fs.tree, p) \/ fs.tree[p] # fs0.tree[p]
     \/ fs0.zip.exists /\ fs.zip # fs0.zip)
        => answer \in {"y", "Y"}

\* ------------------------------------------------------------------ C7
\* C7: when make_archive fails, the working directory and every file written
\* into it are still there; the working directory is gone only when the
\* archive was written.
C7_ArchiveFailureKeepsDirectory ==
    /\ error = "OSError" =>
          /\ Exists(fs.tree, DatapackDir(ponder_name))
          /\ Exists(fs.tree, MetaFile(ponder_name))
          /\ fs.tree[MetaFile(ponder_name)] = File(MetaText)
          /\ Exists(fs.tree, MainFile(ponder_name, version))
          /\ \A t \in CommandTimes :
                Exists(fs.tree, FunctionFile(ponder_name, version, t))
    /\ (Done("mkdir") /\ ~Exists(fs.tree, DatapackDir(ponder_name))) =>
          /\ error # "OSError"
          /\ fs.zip.exists
          /\ << <<"pack.mcmeta">> >> \in DOMAIN fs.zip.entries

C7_Witness ==
    /\ error = "OSError"
    /\ pc = "raised"
    /\ Len(commands) > 0
    /\ Exists(fs.tree, MainFile(ponder_name, version))

\* ------------------------------------------------------------------ C8
\* C8: main.mcfunction is the header line followed by exactly one directive
\* per distinct bucket time, in the order in which the times were first seen
\* in the compiled commands.
C8_ChainInFirstSeenOrder ==
    MainWritten =>
        LET order == FirstSeen(commands, {})
            lines == MainLines
            ds == Tail(lines)
        IN /\ lines[1] = Header
           /\ Len(ds) = Cardinality(CommandTimes)
           /\ Len(ds) = Len(order)
           /\ \A i \in DOMAIN ds :
                 /\ DirectiveNamespace(ds[i]) = ponder_name
                 /\ StrToInt(DirectiveFunction(ds[i])) = order[i]

C8_Witness ==
    /\ MainWritten
    /\ Len(commands) = 3
    /\ commands[1].time = 5
    /\ commands[2].time = 0
    /\ commands[3].time = 5

\* ------------------------------------------------------------------ C9
\* C9: every directive "schedule function n:X ..." of main.mcfunction names a
\* function whose file X.mcfunction is in the pack's function directory, and
\* every bucket file is named by some directive.
C9_DirectivesNameWrittenFiles ==
    MainWritten =>
        LET ds == Directives
        IN /\ \A i \in DOMAIN ds :
                 Exists(fs.tree, FunctionDir(DirectiveNamespace(ds[i]), version)
                           \o <<DirectiveFunction(ds[i]) \o <<".mcfunction">>>>)
           /\ \A t \in DOMAIN functions.val :
                 \E i \in DOMAIN ds :
                     BucketFileName(t) = DirectiveFunction(ds[i]) \o <<".mcfunction">>

\* ------------------------------------------------------------------ C10
\* C10: compile ends normally for every log whose compilation succeeds, the
\* empty one included: it raises only the compiler's FormatError or a
\* file-system error, and nothing once the archive is written and the
\* working directory removed.
C10_NormalCompletion ==
    pc = "raised" => error \in {"FormatError", "FileExistsError", "OSError"}
====
